---- MODULE Spec2Model ----
(***************************************************************************)
(* Model of src/src/fokker_planck.py: the explicit finite-volume solvers   *)
(* FokkerPlanck1D and FokkerPlanck2D.                                      *)
(*                                                                         *)
(* Arrays are heap objects, so that rebinding (self.p = np.maximum(...)),  *)
(* in-place update (self.p += ..., self.p /= ...) and .copy() are          *)
(* distinguishable.  An array value is a record                            *)
(*    [shape, num, den]     element c has the value num[c] / den           *)
(* with exact rational arithmetic in place of floating point; den = 0      *)
(* stands for the array numpy produces when every element is 0.0 / 0.0     *)
(* (all NaN).  A 1D array of length n has the cells <<i, 1>>, i \in 1..n.  *)
(***************************************************************************)
EXTENDS Integers, Sequences, FiniteSets, TLC

\* ------------------------------------------------------------- bounds
MaxNx    == 3      \* largest resolution per axis tried at construction
MaxNt    == 2      \* largest nt tried at construction
MaxEvery == 2      \* largest snapshot_every tried at construction
MaxCalls == 3      \* calls and loop passes explored per solver object

\* an optional value is << >> (Python's None) or <<v>>
None == << >>
Some(v) == <<v>>
The(o) == o[1]
\* cfg while no solver object exists
NoSolver == [dim |-> 0]
NoError == "none"

\* ------------------------------------------------- rational arithmetic
Abs(a) == IF a < 0 THEN -a ELSE a

RECURSIVE GCD(_, _)
GCD(a, b) == IF b = 0 THEN a ELSE GCD(b, a % b)

RECURSIVE SumOver(_, _)
SumOver(f, S) ==
  IF S = {} THEN 0
  ELSE LET c == CHOOSE c \in S : TRUE IN f[c] + SumOver(f, S \ {c})

RECURSIVE GCDOver(_, _, _)
GCDOver(f, S, g) ==
  IF S = {} THEN g
  ELSE LET c == CHOOSE c \in S : TRUE IN GCDOver(f, S \ {c}, GCD(Abs(f[c]), g))

Rat(n, d) == [n |-> n, d |-> d]
RatLess(a, b) == a.n * b.d < b.n * a.d
RatEq(a, b) == a.n * b.d = b.n * a.d

\* ------------------------------------------------------------- arrays
Cells(shape) ==
  IF Len(shape) = 1 THEN (1 .. shape[1]) \X {1}
  ELSE (1 .. shape[1]) \X (1 .. shape[2])

IsNaN(a) == a.den = 0

NaNArray(shape) == [shape |-> shape, num |-> [c \in Cells(shape) |-> 0], den |-> 0]

\* the same values over the smallest denominator (no change of value)
Reduce(a) ==
  IF IsNaN(a) THEN NaNArray(a.shape)
  ELSE LET g == GCDOver(a.num, Cells(a.shape), a.den)
       IN [shape |-> a.shape,
           num |-> [c \in Cells(a.shape) |-> a.num[c] \div g],
           den |-> a.den \div g]

\* np.sum(a) as a rational, for a finite array
ArraySum(a) == Rat(SumOver(a.num, Cells(a.shape)), a.den)

\* np.maximum(a, 0): a new array; NaN elements stay NaN
Maximum0(a) ==
  IF IsNaN(a) THEN a
  ELSE [a EXCEPT !.num = [c \in Cells(a.shape) |-> IF a.num[c] < 0 THEN 0 ELSE a.num[c]]]

\* a / m for the rational m: elementwise IEEE division, where 0/0 is NaN.
\* Every caller passes m = np.sum(a) * cell_volume with a >= 0 elementwise,
\* so m = 0 only when every element of a is 0.
DivideBy(a, m) ==
  IF IsNaN(a) \/ m.d = 0 \/ m.n = 0 THEN NaNArray(a.shape)
  ELSE LET s == IF m.n < 0 THEN -1 ELSE 1
       IN Reduce([shape |-> a.shape,
                  num |-> [c \in Cells(a.shape) |-> s * a.num[c] * (m.d \div GCD(m.d, a.den))],
                  den |-> s * m.n * (a.den \div GCD(m.d, a.den))])

\* np.sum(a) * volume, the mass the code divides by
MassOf(a, volume) ==
  IF IsNaN(a) THEN Rat(0, 0)
  ELSE LET s == ArraySum(a) IN Rat(s.n * volume, s.d)

\* 2*h*np.gradient(f, h, axis): centred differences inside, one-sided at the
\* two ends.  f is a function over Cells(shape) of integers.
Gradient2(f, shape, axis) ==
  LET n == shape[axis]
      at(c, k) == IF axis = 1 THEN f[<<k, c[2]>>] ELSE f[<<c[1], k>>]
  IN [c \in Cells(shape) |->
        LET i == c[axis]
        IN IF i = 1 THEN 2 * (at(c, 2) - at(c, 1))
           ELSE IF i = n THEN 2 * (at(c, n) - at(c, n - 1))
           ELSE at(c, i + 1) - at(c, i - 1)]


\* ------------------------------------------------------ configuration
\* Arguments tried at construction.  The domain is [-1, 1] on every axis and
\* only resolutions that give an integer spacing are tried.
Domain == [min |-> -1, max |-> 1]

Resolutions ==
  {n \in -1 .. MaxNx : n < 2 \/ (Domain.max - Domain.min) % (n - 1) = 0}

\* user callables, by name
Eval(f, x, y) ==
  CASE f = "zero" -> 0
    [] f = "one"  -> 1
    [] f = "negx" -> -x
    [] f = "posx" -> x
    [] f = "negy" -> -y
    [] f = "posy" -> y

\* drift and diffusion callables with a time step: an Ornstein-Uhlenbeck
\* process, a pure outward drift with a large step, and diffusion with dt = 0
Dynamics1D ==
  { [Ax_func |-> "negx", Ay_func |-> "zero", Dx_func |-> "one",  Dy_func |-> "zero",
     dt |-> Rat(1, 2)],
    [Ax_func |-> "posx", Ay_func |-> "zero", Dx_func |-> "zero", Dy_func |-> "zero",
     dt |-> Rat(1, 1)],
    [Ax_func |-> "zero", Ay_func |-> "zero", Dx_func |-> "one",  Dy_func |-> "zero",
     dt |-> Rat(0, 1)] }

Dynamics2D ==
  { [Ax_func |-> "negx", Ay_func |-> "negy", Dx_func |-> "one",  Dy_func |-> "one",
     dt |-> Rat(1, 2)],
    [Ax_func |-> "posx", Ay_func |-> "posy", Dx_func |-> "zero", Dy_func |-> "zero",
     dt |-> Rat(1, 1)],
    [Ax_func |-> "zero", Ay_func |-> "zero", Dx_func |-> "one",  Dy_func |-> "one",
     dt |-> Rat(0, 1)] }

Args ==
  [dim : {1}, nx : Resolutions, ny : {1}, nt : 0 .. MaxNt,
   snapshot_every : 0 .. MaxEvery, fields : Dynamics1D]
  \cup
  [dim : {2}, nx : Resolutions, ny : Resolutions, nt : 0 .. MaxNt,
   snapshot_every : 0 .. MaxEvery, fields : Dynamics2D]

\* np.linspace(min, max, n)[i-1]
Linspace(n, i) == Domain.min + (i - 1) * ((Domain.max - Domain.min) \div (n - 1))

\* self.dx = self.x[1] - self.x[0]
Spacing(n) == Linspace(n, 2) - Linspace(n, 1)

\* the exception __init__ raises for these arguments, NoError if none
ConstructError(a) ==
  IF a.nx < 0 \/ (a.dim = 2 /\ a.ny < 0) THEN "ValueError"
  ELSE IF a.nx < 2 \/ (a.dim = 2 /\ a.ny < 2) THEN "IndexError"
  ELSE NoError

VARIABLES
  cfg,          \* the solver object's configuration, NoSolver while none exists
  p,            \* self.p: None or Some(reference into heap)
  heap,         \* the live arrays, by reference
  snapshots,    \* self.snapshots: sequence of references
  times,        \* self.times: sequence of rationals
  pc,           \* "idle", or "solve" inside the loop of solve()
  t,            \* the loop variable of solve()
  err,          \* the exception raised by the last call, NoError if it returned
  ret,          \* the value returned by the last call
  call,         \* the last call: [op, arg]
  nsteps,       \* step() invocations completed since the last initialize()
  recSteps,     \* nsteps at the time each entry of times was appended
  solveCalled,  \* whether solve() was ever called on the solver
  solvesSinceInit, \* solve() calls since the last initialize()
  solvesDone,   \* of these, the ones that returned
  calls         \* initialize(), step() and empty solve() calls since construction

solver == <<p, heap, snapshots, times>>
history == <<nsteps, recSteps, solveCalled, solvesSinceInit, solvesDone, calls>>
vars == <<cfg, solver, pc, t, err, ret, call, history>>

GridShape == IF cfg.dim = 1 THEN <<cfg.nx>> ELSE <<cfg.nx, cfg.ny>>
dx == Spacing(cfg.nx)
dy == Spacing(cfg.ny)
CellVolume == IF cfg.dim = 1 THEN dx ELSE dx * dy
X(c) == Linspace(cfg.nx, c[1])
Y(c) == IF cfg.dim = 1 THEN 0 ELSE Linspace(cfg.ny, c[2])
Field(f) == [c \in Cells(GridShape) |-> Eval(f, X(c), Y(c))]

\* ---------------------------------------------------------------- heap
Alloc(h) ==
  CHOOSE i \in 1 .. (Cardinality(DOMAIN h) + 1) :
    i \notin DOMAIN h /\ \A j \in 1 .. (i - 1) : j \in DOMAIN h

Range(s) == {s[i] : i \in 1 .. Len(s)}

\* the arrays still referenced by the solver
Live(h, pr, snaps) == [r \in (Range(snaps) \cup Range(pr)) |-> h[r]]

\* a snapshot stored as a reference to the live array, not as a copy
CopyAliased(h, r) == [heap |-> h, ref |-> r]

\* a.copy(): a new object holding the same values
Copy(h, r) == LET o == Alloc(h) IN [heap |-> h @@ (o :> h[r]), ref |-> o]


\* ------------------------------------------------- initial conditions
\* 100 * exp(-r2 / 2) to two digits, for the squared radii of the grids above
ExpNegHalf(r2) ==
  CASE r2 = 0 -> 100
    [] r2 = 1 -> 61
    [] r2 = 2 -> 37

\* 1D: np.exp(-self.x**2 / 2) / np.sqrt(2 * np.pi), with 1/sqrt(2 pi) taken as 2/5
\* 2D: np.exp(-(self.X**2 + self.Y**2) / 2)
DefaultP0 ==
  IF cfg.dim = 1
  THEN [shape |-> GridShape,
        num |-> [c \in Cells(GridShape) |-> 2 * ExpNegHalf(X(c) * X(c))],
        den |-> 500]
  ELSE [shape |-> GridShape,
        num |-> [c \in Cells(GridShape) |-> ExpNegHalf(X(c) * X(c) + Y(c) * Y(c))],
        den |-> 100]

\* user initial conditions, by name: what p0_func returns on the grid
P0Funcs == {"ones", "signed", "wide"}

WideShape == IF cfg.dim = 1 THEN <<cfg.nx + 1>> ELSE <<cfg.nx + 1, cfg.ny>>

UserP0(f) ==
  CASE f = "ones" ->
         [shape |-> GridShape, num |-> [c \in Cells(GridShape) |-> 1], den |-> 1]
    [] f = "signed" ->
         [shape |-> GridShape, num |-> [c \in Cells(GridShape) |-> X(c)], den |-> 1]
    [] f = "wide" ->
         [shape |-> WideShape, num |-> [c \in Cells(WideShape) |-> 1], den |-> 1]

\* self.p /= np.sum(self.p * self.dx)      (1D)
\* self.p /= np.sum(self.p) * self.dx * self.dy   (2D)
Normalized(a) == DivideBy(a, MassOf(a, CellVolume))

\* lines 43-49 / 125-131: the heap and the reference self.p after them
InitialDensity(h, p0) ==
  IF p0 = "default"
  THEN LET o == Alloc(h)
       IN [heap |-> h @@ (o :> Normalized(Reduce(DefaultP0))), ref |-> o]
  ELSE LET u  == Alloc(h)
           h1 == h @@ (u :> UserP0(p0))
           o  == Alloc(h1)
           h2 == h1 @@ (o :> Maximum0(h1[u]))
       IN [heap |-> [h2 EXCEPT ![o] = Normalized(h2[o])], ref |-> o]

\* ---------------------------------------------------------------- step
\* self.p += self.dt * dpdt, with dpdt as lines 55-64 / 137-148 compute it
Updated(a) ==
  IF IsNaN(a) THEN a
  ELSE
    LET S   == GridShape
        Kx  == 2 * dx
        Ky  == IF cfg.dim = 1 THEN 1 ELSE 2 * dy
        Ax  == Field(cfg.fields.Ax_func)
        Ay  == Field(cfg.fields.Ay_func)
        Dx  == Field(cfg.fields.Dx_func)
        Dy  == Field(cfg.fields.Dy_func)
        \* Kx * den * flux_x,  Ky * den * flux_y
        gDx == Gradient2([c \in Cells(S) |-> Dx[c] * a.num[c]], S, 1)
        Fx  == [c \in Cells(S) |-> Kx * Ax[c] * a.num[c] - gDx[c]]
        gDy == IF cfg.dim = 1 THEN [c \in Cells(S) |-> 0]
               ELSE Gradient2([c \in Cells(S) |-> Dy[c] * a.num[c]], S, 2)
        Fy  == [c \in Cells(S) |-> Ky * Ay[c] * a.num[c] - gDy[c]]
        \* Kx^2 * Ky^2 * den * dpdt
        gFx == Gradient2(Fx, S, 1)
        gFy == IF cfg.dim = 1 THEN [c \in Cells(S) |-> 0] ELSE Gradient2(Fy, S, 2)
        dpdt == [c \in Cells(S) |-> -(gFx[c] * Ky * Ky) - (gFy[c] * Kx * Kx)]
        scale == cfg.fields.dt.d * Kx * Kx * Ky * Ky
    IN Reduce([shape |-> S,
               num |-> [c \in Cells(S) |-> a.num[c] * scale + cfg.fields.dt.n * dpdt[c]],
               den |-> a.den * scale])

\* step(): the exception it raises, and the heap and self.p it leaves
step(h, pr) ==
  IF pr = None THEN [err |-> "TypeError", heap |-> h, p |-> pr]
  ELSE IF h[The(pr)].shape # GridShape
  THEN [err |-> "ValueError", heap |-> h, p |-> pr]
  ELSE LET h1 == [h EXCEPT ![The(pr)] = Updated(h[The(pr)])]
           o  == Alloc(h1)
           h2 == h1 @@ (o :> Maximum0(h1[The(pr)]))
           h3 == [h2 EXCEPT ![o] = Normalized(h2[o])]
       IN [err |-> NoError, heap |-> h3, p |-> Some(o)]

\* the cadence test on a zero-based loop index
ShouldSnapshotZeroBased(k, every) == (k - 1) % every = 0

\* t % self.snapshot_every == 0
ShouldSnapshot(k, every) == k % every = 0

\* ------------------------------------------------------------- actions
Init ==
  /\ cfg = NoSolver /\ p = None /\ heap = << >> /\ snapshots = << >> /\ times = << >>
  /\ pc = "idle" /\ t = 0 /\ err = NoError /\ ret = None
  /\ call = [op |-> "none", arg |-> None]
  /\ nsteps = 0 /\ recSteps = << >> /\ solveCalled = FALSE /\ solvesSinceInit = 0
  /\ solvesDone = 0 /\ calls = 0

Construct(a) ==
  /\ cfg = NoSolver
  /\ call' = [op |-> "construct", arg |-> a]
  /\ err' = ConstructError(a)
  /\ cfg' = IF ConstructError(a) = NoError THEN a ELSE NoSolver
  /\ ret' = None
  /\ UNCHANGED <<solver, pc, t, history>>

Initialize(p0) ==
  /\ cfg # NoSolver /\ pc = "idle" /\ calls < MaxCalls
  /\ \E r \in {InitialDensity(heap, p0)} : \E s \in {Copy(r.heap, r.ref)} :
        /\ p' = Some(r.ref)
        /\ snapshots' = <<s.ref>>
        /\ heap' = Live(s.heap, Some(r.ref), <<s.ref>>)
  /\ times' = <<Rat(0, 1)>>
  /\ call' = [op |-> "initialize", arg |-> p0]
  /\ err' = NoError /\ ret' = None
  /\ nsteps' = 0 /\ recSteps' = <<0>> /\ solvesSinceInit' = 0 /\ solvesDone' = 0
  /\ calls' = calls + 1
  /\ UNCHANGED <<cfg, pc, t, solveCalled>>

Step ==
  /\ cfg # NoSolver /\ pc = "idle" /\ calls < MaxCalls
  /\ \E r \in {step(heap, p)} :
        /\ err' = r.err
        /\ p' = r.p
        /\ heap' = Live(r.heap, r.p, snapshots)
        /\ nsteps' = IF r.err = NoError THEN nsteps + 1 ELSE nsteps
  /\ call' = [op |-> "step", arg |-> None]
  /\ ret' = None
  /\ calls' = calls + 1
  /\ UNCHANGED <<cfg, snapshots, times, pc, t, recSteps, solveCalled, solvesSinceInit,
                 solvesDone>>

\* solve() is entered: range(1, self.nt + 1) is empty or the loop starts
Solve ==
  /\ cfg # NoSolver /\ pc = "idle" /\ calls + (IF cfg.nt < 1 THEN 1 ELSE cfg.nt) <= MaxCalls
  /\ call' = [op |-> "solve", arg |-> None]
  /\ err' = NoError /\ ret' = None
  /\ solveCalled' = TRUE
  /\ solvesSinceInit' = solvesSinceInit + 1
  /\ IF cfg.nt < 1
     THEN /\ solvesDone' = solvesDone + 1
          /\ calls' = calls + 1
          /\ UNCHANGED <<pc, t>>
     ELSE /\ pc' = "solve" /\ t' = 1
          /\ UNCHANGED <<solvesDone, calls>>
  /\ UNCHANGED <<cfg, solver, nsteps, recSteps>>

\* one pass of the loop body of solve(), and the return after the last one
SolveIteration ==
  /\ pc = "solve"
  /\ \E r \in {step(heap, p)} : LET
         failed == r.err # NoError \/ cfg.snapshot_every = 0
         taken == ~failed /\ ShouldSnapshot(t, cfg.snapshot_every)
         s == Copy(r.heap, The(r.p))
     IN /\ err' = IF r.err # NoError THEN r.err
                  ELSE IF cfg.snapshot_every = 0 THEN "ZeroDivisionError"
                  ELSE NoError
        /\ p' = r.p
        /\ snapshots' = IF taken THEN Append(snapshots, s.ref) ELSE snapshots
        /\ heap' = Live(IF taken THEN s.heap ELSE r.heap, r.p, snapshots')
        /\ times' = IF taken THEN Append(times, Rat(t * cfg.fields.dt.n, cfg.fields.dt.d)) ELSE times
        /\ nsteps' = IF r.err = NoError THEN nsteps + 1 ELSE nsteps
        /\ recSteps' = IF taken THEN Append(recSteps, nsteps') ELSE recSteps
        /\ IF failed \/ t = cfg.nt
           THEN pc' = "idle" /\ t' = 0
           ELSE pc' = "solve" /\ t' = t + 1
        /\ solvesDone' = IF ~failed /\ t = cfg.nt THEN solvesDone + 1 ELSE solvesDone
  /\ calls' = calls + 1
  /\ ret' = None
  /\ UNCHANGED <<cfg, call, solveCalled, solvesSinceInit>>

\* results that also report the live density as a last, untimed snapshot
ResultsWithLive ==
  [times |-> times,
   snapshots |-> [i \in 1 .. Len(snapshots) + Len(p) |->
                    IF i <= Len(snapshots) THEN heap[snapshots[i]] ELSE heap[The(p)]]]

\* np.array(self.times), np.array(self.snapshots)
Results ==
  [times |-> times,
   snapshots |-> [i \in 1 .. Len(snapshots) |-> heap[snapshots[i]]]]

GetResults ==
  /\ cfg # NoSolver /\ pc = "idle"
  /\ ret' = Some(Results)
  /\ call' = [op |-> "get_results", arg |-> None]
  /\ err' = NoError
  /\ UNCHANGED <<cfg, solver, pc, t, history>>

Next ==
  \/ \E a \in Args : Construct(a)
  \/ \E p0 \in P0Funcs \cup {"default"} : Initialize(p0)
  \/ Step
  \/ Solve
  \/ SolveIteration
  \/ GetResults

Spec == Init /\ [][Next]_vars


\* -------------------------------------------------------------- claims
Initialized == p # None
Density == heap[The(p)]
OneMass(a) == ~IsNaN(a) /\ a.den > 0 /\ MassOf(a, CellVolume).n = MassOf(a, CellVolume).d
NonNegative(a) == ~IsNaN(a) /\ \A c \in Cells(a.shape) : a.num[c] >= 0
Dt(k) == Rat(k * cfg.fields.dt.n, cfg.fields.dt.d)

\* the configurations section 7 of the specification rejects, and the solvers
\* it admits (with a usable snapshot cadence)
BadConfiguration(a) ==
  a.nx < 2 \/ (a.dim = 2 /\ a.ny < 2) \/ a.fields.dt.n <= 0 \/ a.nt <= 0
ValidSolver == cfg # NoSolver /\ ~BadConfiguration(cfg) /\ cfg.snapshot_every >= 1

\* C1: after initialize() and after every completed step(), every element of
\* the density is >= 0 and sum(p) * cell_volume equals 1.
C1_NonNegativeUnitMass ==
  (ValidSolver /\ Initialized) => NonNegative(Density) /\ OneMass(Density)

\* initialize() was followed by exactly one solve(), which has returned
OneSolveDone ==
  /\ Initialized /\ pc = "idle" /\ solvesSinceInit = 1 /\ solvesDone = 1
  /\ cfg.nt >= 1 /\ cfg.snapshot_every >= 1

\* C2: after initialize() followed by one solve(), the snapshot series and the
\* time sequence, as stored and as returned by get_results(), have length
\* 1 + floor(nt / snapshot_every), for nt >= 1 and snapshot_every >= 1.
C2_SnapshotCount ==
  OneSolveDone =>
    LET n == 1 + (cfg.nt \div cfg.snapshot_every)
    IN /\ Len(snapshots) = n
       /\ Len(times) = n
       /\ ret # None => Len(The(ret).times) = n /\ Len(The(ret).snapshots) = n

C2_Witness ==
  /\ OneSolveDone /\ ret # None
  /\ cfg.nt = 2 /\ cfg.snapshot_every = 1 /\ nsteps = 2
  /\ Len(The(ret).snapshots) = 3

\* C3: in every state reachable by initialize(), step() and solve() calls on a
\* solver, the recorded times are strictly increasing and start at 0.
C3_TimesStrictlyIncreasing ==
  ValidSolver =>
    /\ \A i \in 1 .. Len(times) - 1 : RatLess(times[i], times[i + 1])
    /\ Initialized => times[1] = Rat(0, 1)

\* C4: every recorded pair but the first is (k * dt, density after step k) with k
\* the number of step() invocations completed since initialize() and k a multiple
\* of snapshot_every, and every completed step k with k mod snapshot_every = 0
\* has produced exactly one pair.
C4_TimesCountAllSteps ==
  (ValidSolver /\ Initialized) =>
    /\ \A i \in 2 .. Len(times) :
         /\ RatEq(times[i], Dt(recSteps[i]))
         /\ recSteps[i] % cfg.snapshot_every = 0
    /\ Len(times) = 1 + (nsteps \div cfg.snapshot_every)

\* C5: a recorded snapshot and its time are never changed by a later step():
\* every operation but initialize() keeps each recorded pair as it was.
C5_SnapshotsImmutable ==
  [][call'.op # "initialize" =>
       /\ Len(snapshots') >= Len(snapshots)
       /\ Len(times') >= Len(times)
       /\ \A i \in 1 .. Len(snapshots) : heap'[snapshots'[i]] = heap[snapshots[i]]
       /\ \A i \in 1 .. Len(times) : times'[i] = times[i]]_vars

C5_Witness ==
  /\ Initialized /\ call.op = "step" /\ err = NoError
  /\ Len(snapshots) = 2
  /\ Density # heap[snapshots[1]]
  /\ Density # heap[snapshots[2]]
  /\ heap[snapshots[1]] # heap[snapshots[2]]

\* C6: step() or solve() on a solver that was never initialized fails with an
\* UninitializedStateError and leaves density, snapshots and times unchanged.
C6_UninitializedRejected ==
  (ValidSolver /\ call.op \in {"step", "solve"} /\ pc = "idle" /\ ~Initialized) =>
    /\ err = "UninitializedStateError"
    /\ snapshots = << >> /\ times = << >>

\* C7: a step() whose clamped density is identically zero raises a
\* NumericalInstabilityError; a step from a finite density never leaves a
\* non-finite live density.
C7_StepKeepsFinite ==
  [][(ValidSolver /\ call'.op \in {"step", "solve"} /\ Initialized /\ p' # None
        /\ ~IsNaN(Density))
       => (~IsNaN(heap'[The(p')]) \/ err' = "NumericalInstabilityError")]_vars

\* C8: construction with a resolution < 2 on an axis, or with dt <= 0 or nt <= 0,
\* fails with a ConfigurationError, and no solver with such a configuration exists.
C8_ConfigurationChecked ==
  /\ cfg # NoSolver => ~BadConfiguration(cfg)
  /\ (call.op = "construct" /\ BadConfiguration(call.arg)) => err = "ConfigurationError"

\* C9: initialize() with an initial condition of the wrong shape fails with a
\* ShapeMismatchError, and the solver does not become Initialized.
C9_ShapeChecked ==
  /\ (ValidSolver /\ Initialized) => Density.shape = GridShape
  /\ (ValidSolver /\ call.op = "initialize" /\ call.arg = "wide") =>
       err = "ShapeMismatchError" /\ snapshots = << >>

\* C10 as stated: whenever solve() was never called, get_results() yields
\* exactly one snapshot, the initial one at time 0.
C10_OneSnapshotWithoutSolve ==
  (ValidSolver /\ ret # None /\ ~solveCalled) =>
    /\ Len(The(ret).snapshots) = 1
    /\ The(ret).times = <<Rat(0, 1)>>

\* C10 as amended: get_results() returns without an error and without changing
\* the solver; it returns the recorded times and the values of the recorded
\* snapshots; once initialize() was called and while solve() was never called
\* that is exactly the initial snapshot at time 0, however many step() calls
\* were made; on a solver never initialized it is the empty series.
C10_GetResults ==
  [][call'.op = "get_results" =>
       /\ err' = NoError
       /\ UNCHANGED <<cfg, solver>>
       /\ The(ret').times = times
       /\ Len(The(ret').snapshots) = Len(snapshots)
       /\ \A i \in 1 .. Len(snapshots) : The(ret').snapshots[i] = heap[snapshots[i]]
       /\ (Initialized /\ ~solveCalled) =>
            /\ Len(The(ret').snapshots) = 1
            /\ The(ret').times = <<Rat(0, 1)>>
            /\ recSteps = <<0>>
       /\ ~Initialized => Len(The(ret').snapshots) = 0 /\ Len(The(ret').times) = 0]_vars

C10_Witness ==
  /\ ret # None /\ Initialized /\ ~solveCalled /\ nsteps = 2
  /\ Len(The(ret).snapshots) = 1
  /\ Density # The(ret).snapshots[1]

====
